---- MODULE Spec2Model ----
(***************************************************************************)
(* The code generated by the unpacked expansion of #[bitfield]             *)
(* (impl/src/bitfield/expand/unpacked.rs) for a handful of schemas: the    *)
(* record with one slot per field, its constructor, setters, getters, the  *)
(* conversions to and from the backing primitive and to and from           *)
(* little-endian bytes, and the in-place byte updates.                     *)
(*                                                                         *)
(* A byte array is a sequence of numbers 0..255, index 1 being byte 0.     *)
(***************************************************************************)
EXTENDS Integers, Sequences, FiniteSets, TLC

VARIABLES schema, overflow_checks, rec, last, buffer

vars == <<schema, overflow_checks, rec, last, buffer>>

(***************************************************************************)
(* Bounds of the model.                                                    *)
(***************************************************************************)
\* how many of the sample byte values the byte updates are given
NumByteVals == 2

\* how many of the sample byte values the input integers and arrays are
\* made of
NumInputVals == 3

\* how many of the sample values of a narrower field the setters are given
NumNarrowVals == 2

\* how many of the sample values of a full 8-bit field the setters are given
NumWideVals == 2

\* the widest field of the schemas handed to the width check
MaxFieldBits == 8

\* how many of the sample buffers a bit buffer starts from
NumBufferVals == 2

\* how many calls are made on one bit buffer
MaxCalls == 1

(***************************************************************************)
(* Schemas: what the attribute macro is handed.  bits = 0 and repr = 0     *)
(* stand for an absent `bits = N` and an absent `#[repr(uN)]`.             *)
(***************************************************************************)
Field(name, kind, bits, variants) ==
    [name |-> name, kind |-> kind, bits |-> bits, variants |-> variants,
     skip |-> "none", offset |-> 0]

B(name, bits) == Field(name, "uint", bits, 0)

Bool(name) == Field(name, "bool", 1, 2)

Enum(name, bits, variants) == Field(name, "enum", bits, variants)

\* #[skip(getters)] on a field
SkipGetters(f) == [f EXCEPT !.skip = "getters"]

\* the offset expression built up field by field: 0usize + BITS + BITS ...
RECURSIVE Offset(_, _)
Offset(fields, i) ==
    IF i = 1 THEN 0 ELSE Offset(fields, i - 1) + fields[i - 1].bits

\* the fields, each with the offset the expansion computes for it
RECURSIVE WithOffsets(_, _)
WithOffsets(fields, n) ==
    IF n = 0 THEN <<>>
    ELSE Append(WithOffsets(fields, n - 1),
                [fields[n] EXCEPT !.offset = Offset(fields, n)])

Bitfield(name, bits, repr, filled, fields) ==
    [name |-> name, bits |-> bits, repr |-> repr, filled |-> filled,
     fields |-> WithOffsets(fields, Len(fields))]

Color ==
    Bitfield("Color", 32, 0, TRUE,
             <<B("r", 8), B("g", 8), B("b", 8), Bool("a"), B("rest", 7)>>)

Nibbles == Bitfield("Nibbles", 8, 0, TRUE, <<B("lo", 4), B("hi", 4)>>)

Mode ==
    Bitfield("Mode", 0, 8, FALSE,
             <<Enum("mode", 2, 3), Bool("flag"), B("val", 3)>>)

Pinned == Bitfield("Pinned", 8, 0, FALSE, <<B("x", 3), B("y", 2)>>)

Wide == Bitfield("Wide", 12, 0, FALSE, <<B("p", 4), B("q", 6)>>)

Schemas == {Color, Nibbles, Mode, Pinned, Wide}

\* three skipped 10-bit fields around two booleans, with bits = 32
Sparse ==
    Bitfield("Sparse", 32, 0, TRUE,
             <<SkipGetters(B("unused_1", 10)), Bool("a"),
               SkipGetters(B("unused_2", 10)), Bool("b"),
               SkipGetters(B("unused_3", 10))>>)

(***************************************************************************)
(* Arithmetic.  Numbers of the model stay below 2^31, so a primitive       *)
(* (u8, u16, u32) is its width w and two 16-bit halves, lo and hi; hi is 0 *)
(* for u8 and u16.                                                         *)
(***************************************************************************)
Pow2Table ==
    <<1, 2, 4, 8, 16, 32, 64, 128, 256, 512, 1024, 2048, 4096, 8192, 16384,
      32768, 65536, 131072, 262144, 524288, 1048576, 2097152, 4194304,
      8388608, 16777216, 33554432, 67108864, 134217728, 268435456,
      536870912, 1073741824>>

Pow2(n) == Pow2Table[n + 1]

Min(a, b) == IF a < b THEN a ELSE b

RECURSIVE AndBits(_, _)
AndBits(a, b) ==
    IF a = 0 \/ b = 0 THEN 0
    ELSE (a % 2) * (b % 2) + 2 * AndBits(a \div 2, b \div 2)

RECURSIVE OrBits(_, _)
OrBits(a, b) ==
    IF a = 0 THEN b
    ELSE IF b = 0 THEN a
    ELSE (IF a % 2 = 1 \/ b % 2 = 1 THEN 1 ELSE 0)
             + 2 * OrBits(a \div 2, b \div 2)

\* a & b and a | b of two 4-bit numbers, tabulated: entry [a + 1][b + 1]
RECURSIVE AndRow(_, _)
AndRow(a, b) == IF b < 0 THEN <<>> ELSE Append(AndRow(a, b - 1), AndBits(a, b))

RECURSIVE AndRows(_)
AndRows(a) == IF a < 0 THEN <<>> ELSE Append(AndRows(a - 1), AndRow(a, 15))

AndTable == AndRows(15)

RECURSIVE OrRow(_, _)
OrRow(a, b) == IF b < 0 THEN <<>> ELSE Append(OrRow(a, b - 1), OrBits(a, b))

RECURSIVE OrRows(_)
OrRows(a) == IF a < 0 THEN <<>> ELSE Append(OrRows(a - 1), OrRow(a, 15))

OrTable == OrRows(15)

\* a & b of two 16-bit numbers, four bits at a time
AndN(a, b) ==
    IF a = 0 \/ b = 0 THEN 0
    ELSE AndTable[(a % 16) + 1][(b % 16) + 1]
         + 16 * AndTable[((a \div 16) % 16) + 1][((b \div 16) % 16) + 1]
         + 256 * AndTable[((a \div 256) % 16) + 1][((b \div 256) % 16) + 1]
         + 4096 * AndTable[(a \div 4096) + 1][(b \div 4096) + 1]

\* a | b of two 16-bit numbers, four bits at a time
OrN(a, b) ==
    IF a = 0 THEN b
    ELSE IF b = 0 THEN a
    ELSE OrTable[(a % 16) + 1][(b % 16) + 1]
         + 16 * OrTable[((a \div 16) % 16) + 1][((b \div 16) % 16) + 1]
         + 256 * OrTable[((a \div 256) % 16) + 1][((b \div 256) % 16) + 1]
         + 4096 * OrTable[(a \div 4096) + 1][(b \div 4096) + 1]

Prim(w, lo, hi) == [w |-> w, lo |-> lo, hi |-> hi]

\* the halves cut down to the width
Wrap(w, lo, hi) ==
    IF w = 32 THEN Prim(w, lo % 65536, hi % 65536)
    ELSE Prim(w, lo % Pow2(w), 0)

\* `v as uN` for a number v of at most 16 bits
AsPrim(v, w) == Wrap(w, v, 0)

Zero(w) == Prim(w, 0, 0)

\* x << n for n below the width: the bits shifted past the top are lost
Shl(x, n) ==
    IF n >= 16 THEN Wrap(x.w, 0, x.lo * Pow2(n - 16))
    ELSE Wrap(x.w, x.lo * Pow2(n),
                   ((x.hi * Pow2(n)) % 65536) + ((x.lo * Pow2(n)) \div 65536))

\* x >> n for n below the width
Shr(x, n) ==
    IF n >= 16 THEN Prim(x.w, x.hi \div Pow2(n - 16), 0)
    ELSE Prim(x.w, (x.lo \div Pow2(n)) + ((x.hi % Pow2(n)) * Pow2(16 - n)),
                   x.hi \div Pow2(n))

BitAnd(x, y) == Prim(x.w, AndN(x.lo, y.lo), AndN(x.hi, y.hi))

BitOr(x, y) == Prim(x.w, OrN(x.lo, y.lo), OrN(x.hi, y.hi))

\* x - 1 for x # 0
SubOne(x) ==
    IF x.lo > 0 THEN Prim(x.w, x.lo - 1, x.hi) ELSE Prim(x.w, 65535, x.hi - 1)

\* bit k of x, bit 0 being the least significant
Bit(x, k) ==
    IF k < 16 THEN (x.lo \div Pow2(k)) % 2 ELSE (x.hi \div Pow2(k - 16)) % 2

\* uN::to_le_bytes: the low byte first
prim_to_le_bytes(x) ==
    CASE x.w = 8  -> <<x.lo>>
      [] x.w = 16 -> <<x.lo % 256, x.lo \div 256>>
      [] x.w = 32 -> <<x.lo % 256, x.lo \div 256, x.hi % 256, x.hi \div 256>>

\* uN::from_le_bytes
prim_from_le_bytes(bytes) ==
    CASE Len(bytes) = 1 -> Prim(8, bytes[1], 0)
      [] Len(bytes) = 2 -> Prim(16, bytes[1] + 256 * bytes[2], 0)
      [] Len(bytes) = 4 -> Prim(32, bytes[1] + 256 * bytes[2],
                                    bytes[3] + 256 * bytes[4])

(***************************************************************************)
(* Results: a value, a typed error, or a panic (the failure of an unwrap,  *)
(* an overflowing shift under overflow checks, an index out of range).     *)
(***************************************************************************)
Ok(v) == [res |-> "ok", val |-> v]

Err(e) == [res |-> e, val |-> <<>>]

Panic == [res |-> "panic", val |-> <<>>]

IsOk(x) == x.res = "ok"

(***************************************************************************)
(* The Specifier of a field type: its width, the integer type carrying its *)
(* bytes, and the two checked conversions.                                 *)
(***************************************************************************)
BITS(f) == f.bits

\* Specifier::Bytes: the smallest of u8, u16, u32 holding BITS bits
BytesWidth(f) == IF f.bits <= 8 THEN 8 ELSE IF f.bits <= 16 THEN 16 ELSE 32

\* the values of the field's domain, as numbers: false and true are 0 and 1,
\* an enum variant is its discriminant
Domain(f) ==
    CASE f.kind = "bool" -> {0, 1}
      [] f.kind = "enum" -> 0..(f.variants - 1)
      [] OTHER           -> 0..(Pow2(f.bits) - 1)

\* Specifier::into_bytes: Err(OutOfBounds) for a value outside the domain
\* (a bool or enum slot holds none)
into_bytes(f, v) ==
    CASE f.kind = "bool" -> Ok(v)
      [] f.kind = "enum" -> Ok(v)
      [] OTHER           -> IF v < Pow2(f.bits) THEN Ok(v) ELSE Err("OutOfBounds")

\* Specifier::from_bytes: Err(InvalidBitPattern) for bytes outside the domain
from_bytes(f, bytes) ==
    CASE f.kind = "bool" -> IF bytes \in {0, 1} THEN Ok(bytes)
                                                ELSE Err("InvalidBitPattern")
      [] f.kind = "enum" -> IF bytes < f.variants THEN Ok(bytes)
                                                  ELSE Err("InvalidBitPattern")
      [] OTHER           -> IF bytes < Pow2(f.bits) THEN Ok(bytes)
                                                    ELSE Err("InvalidBitPattern")

\* FieldConfig::skip_getters and skip_setters: skip(all) implies both
skip_getters(f) == f.skip \in {"getters", "all"}

skip_setters(f) == f.skip \in {"setters", "all"}

(***************************************************************************)
(* Layout.                                                                 *)
(***************************************************************************)
NumFields(s) == Len(s.fields)

generate_bitfield_size(s) == Offset(s.fields, NumFields(s) + 1)

generate_target_or_actual_bitfield_size(s) ==
    IF s.bits # 0 THEN s.bits ELSE generate_bitfield_size(s)

next_divisible_by_8(value) == (((value - 1) \div 8) + 1) * 8

\* ReprKind::from_closest: the smallest of u8, u16, u32 holding the bits
from_closest(bits) == IF bits <= 8 THEN 8 ELSE IF bits <= 16 THEN 16 ELSE 32

\* the width of the backing primitive
get_repr_or_bits(s) == IF s.repr # 0 THEN s.repr ELSE from_closest(s.bits)

\* the length of the byte arrays of to_le_bytes and from_le_bytes
NumBytes(s) ==
    next_divisible_by_8(generate_target_or_actual_bitfield_size(s)) \div 8

\* the check with >= in place of > for a schema that is not filled
generate_check_for_filled_at_most(s) ==
    IF s.bits # 0
    THEN IF s.filled THEN s.bits = generate_bitfield_size(s)
                     ELSE s.bits >= generate_bitfield_size(s)
    ELSE IF s.filled THEN generate_bitfield_size(s) % 8 = 0
                     ELSE generate_bitfield_size(s) % 8 # 0

\* the static check of the total width the expansion emits
generate_check_for_filled(s) ==
    IF s.bits # 0
    THEN IF s.filled THEN s.bits = generate_bitfield_size(s)
                     ELSE s.bits > generate_bitfield_size(s)
    ELSE IF s.filled THEN generate_bitfield_size(s) % 8 = 0
                     ELSE generate_bitfield_size(s) % 8 # 0

\* a schema whose expansion compiles: a primitive is named, the width check
\* passes, and the primitive's byte array has the declared length
Compiles(s) ==
    /\ s.bits # 0 \/ s.repr # 0
    /\ generate_check_for_filled(s)
    /\ get_repr_or_bits(s) \div 8 = NumBytes(s)

(***************************************************************************)
(* Conversion between the record and its backing primitive.                *)
(***************************************************************************)
\* 1 << n in an integer of w bits.  A shift by w or more overflows: the
\* build with overflow checks panics, the build without them shifts by
\* n modulo w.
ShlOne(w, n, checks) ==
    IF n < w THEN Ok(Shl(AsPrim(1, w), n))
    ELSE IF checks THEN Panic
    ELSE Ok(Shl(AsPrim(1, w), n % w))

\* The mask's shift amount.  The offset is spliced in as the bare tokens
\* 0usize + BITS + ..., so BITS - #offset + 1 reads
\* BITS - 0usize + BITS + ... + 1.
MaskShift(s, i) == BITS(s.fields[i]) - 0 + s.fields[i].offset + 1

\* `as Bytes` of a primitive, as a number (Bytes is u8 or u16 here)
AsBytes(f, x) == x.lo % Pow2(Min(BytesWidth(f), 16))

\* the initialiser of field i in From<prim>: shift, mask, cast, unwrap
expand_from_for_field(s, i, input, checks) ==
    LET f   == s.fields[i]
        one == ShlOne(input.w, MaskShift(s, i), checks)
    IN  IF ~IsOk(one) THEN Panic
        ELSE LET masked == BitAnd(Shr(input, f.offset), SubOne(one.val))
                 field  == from_bytes(f, AsBytes(f, masked))
             IN  IF IsOk(field) THEN field ELSE Panic

\* From<prim> for the record: the initialisers in the order of the fields.
\* A field with skip_setters() gets no initialiser: it is a skip(all)
\* field, which has no slot; its place in the model's record stays at the
\* zero pattern.
RECURSIVE from_fields(_, _, _, _, _)
from_fields(s, input, checks, i, fields) ==
    IF i > NumFields(s) THEN Ok(fields)
    ELSE IF skip_setters(s.fields[i])
    THEN from_fields(s, input, checks, i + 1,
                     Append(fields, 0))
    ELSE LET field == expand_from_for_field(s, i, input, checks)
         IN  IF IsOk(field)
             THEN from_fields(s, input, checks, i + 1, Append(fields, field.val))
             ELSE Panic

from_repr(s, input, checks) == from_fields(s, input, checks, 1, <<>>)

\* the statement of field i with the shift by the offset left out
expand_into_for_field_unshifted(s, i, r, result) ==
    LET f == s.fields[i]
    IN  IF skip_getters(f) THEN Ok(result)
        ELSE LET bytes == into_bytes(f, r[i])
             IN  IF ~IsOk(bytes) THEN Panic
                 ELSE Ok(BitOr(result, AsPrim(bytes.val, result.w)))

\* the statement of field i with the slot used as it is, into_bytes and
\* its unwrap left out
expand_into_for_field_unchecked(s, i, r, result) ==
    LET f == s.fields[i]
    IN  IF skip_getters(f) THEN Ok(result)
        ELSE Ok(BitOr(result, Shl(AsPrim(r[i], result.w), f.offset)))

\* the statement of field i generated for a field with skip(getters) too
expand_into_for_field_unskipped(s, i, r, result) ==
    LET f     == s.fields[i]
        bytes == into_bytes(f, r[i])
    IN  IF ~IsOk(bytes) THEN Panic
        ELSE Ok(BitOr(result, Shl(AsPrim(bytes.val, result.w), f.offset)))

\* the statement of field i in From<record>: result |= bytes << offset
expand_into_for_field(s, i, r, result) ==
    LET f == s.fields[i]
    IN  IF skip_getters(f) THEN Ok(result)
        ELSE LET bytes == into_bytes(f, r[i])
             IN  IF ~IsOk(bytes) THEN Panic
                 ELSE Ok(BitOr(result,
                               Shl(AsPrim(bytes.val, result.w), f.offset)))

RECURSIVE into_from(_, _, _, _)
into_from(s, r, i, result) ==
    IF i > NumFields(s) THEN Ok(result)
    ELSE LET next == expand_into_for_field(s, i, r, result)
         IN  IF IsOk(next) THEN into_from(s, r, i + 1, next.val) ELSE Panic

\* From<record> for the primitive
into_repr(s, r) == into_from(s, r, 1, Zero(get_repr_or_bits(s)))

(***************************************************************************)
(* The generated methods.                                                  *)
(***************************************************************************)
\* new(): every slot from_bytes(0)
RECURSIVE new_fields(_, _)
new_fields(s, i) ==
    IF i = 0 THEN <<>>
    ELSE Append(new_fields(s, i - 1), from_bytes(s.fields[i], 0).val)

new(s) == new_fields(s, NumFields(s))

\* whether a getter is generated for field i
expand_getters_for_field_unpacked(s, i) == ~skip_getters(s.fields[i])

\* whether set_<field> and with_<field> are generated for field i
expand_setters_for_field_unpacked(s, i) == ~skip_setters(s.fields[i])

\* the getter
get(r, i) == r[i]

\* a setter that also resets every other slot
set_resetting(r, i, new_val) ==
    [k \in 1..Len(r) |-> IF k = i THEN new_val ELSE 0]

\* set_<field>
set(r, i, new_val) == [r EXCEPT ![i] = new_val]

\* with_<field>: the setter on the copy taken by value
with(r, i, new_val) == set(r, i, new_val)

to_le_bytes(s, r) ==
    LET value == into_repr(s, r)
    IN  IF IsOk(value) THEN Ok(prim_to_le_bytes(value.val)) ELSE Panic

\* the bound the top byte is compared with: 0x01 << (8 - (aligned - size))
\* in u8
TopByteBound(s, checks) ==
    LET size == generate_target_or_actual_bitfield_size(s)
    IN  ShlOne(8, 8 - (next_divisible_by_8(size) - size), checks)

from_le_bytes(s, bytes, checks) ==
    IF s.filled THEN from_repr(s, prim_from_le_bytes(bytes), checks)
    ELSE LET bound == TopByteBound(s, checks)
         IN  IF ~IsOk(bound) THEN Panic
             ELSE IF bytes[NumBytes(s)] >= bound.val.lo
                  THEN Err("OutOfBounds")
                  ELSE from_repr(s, prim_from_le_bytes(bytes), checks)

\* value_le[index] = value, then the record is rebuilt from the bytes
UpdateByteAt(s, r, index, value, checks) ==
    LET int_val_self == into_repr(s, r)
    IN  IF ~IsOk(int_val_self) THEN Panic
        ELSE LET value_le == prim_to_le_bytes(int_val_self.val)
             IN  IF index < 0 \/ index >= Len(value_le) THEN Panic
                 ELSE from_repr(s,
                        prim_from_le_bytes([value_le EXCEPT ![index + 1] = value]),
                        checks)

update_byte_le(s, r, byte, value, checks) ==
    UpdateByteAt(s, r, byte, value, checks)

\* the index of update_byte_be without the mirroring
BeIndex_unmirrored(s, byte) == byte

\* the index of update_byte_be
BeIndex(s, byte) ==
    next_divisible_by_8(generate_target_or_actual_bitfield_size(s)) \div 8
        - 1 - byte

update_byte_be(s, r, byte, value, checks) ==
    UpdateByteAt(s, r, BeIndex(s, byte), value, checks)

(***************************************************************************)
(* Inputs.                                                                 *)
(***************************************************************************)
ByteSamples == <<0, 66, 128, 3, 1, 255, 4>>

\* the values written by update_byte_le and update_byte_be
ByteVals == {ByteSamples[k] : k \in 1..Min(NumByteVals, Len(ByteSamples))}

\* the bytes the inputs of From and from_le_bytes are made of
InputSamples == <<0, 66, 3, 1, 255, 128, 4>>

InputVals == {InputSamples[k] : k \in 1..Min(NumInputVals, Len(InputSamples))}

WideSamples == <<255, 128, 66, 1>>

\* for a field of fewer bits than its slot: the first value outside the
\* domain, then values inside it
NarrowSamples(bits) ==
    <<Pow2(bits), Pow2(bits) - 2, Pow2(bits) - 1, 1>>

NarrowVals(bits) ==
    {NarrowSamples(bits)[k] : k \in 1..Min(NumNarrowVals, Len(NarrowSamples(bits)))}

WideVals == {WideSamples[k] : k \in 1..Min(NumWideVals, Len(WideSamples))}

\* what a setter is handed: any value of the slot's type, in the field's
\* domain or not.  A bool or enum slot holds no value outside its domain.
SetVals(f) ==
    CASE f.kind = "bool" -> {0, 1}
      [] f.kind = "enum" -> 0..(f.variants - 1)
      [] OTHER           -> IF f.bits = BytesWidth(f) THEN WideVals
                            ELSE NarrowVals(f.bits)

\* byte arrays: a sample byte at the top or at the bottom, zeros elsewhere
ByteInputs(s) ==
    {[k \in 1..NumBytes(s) |-> IF k = NumBytes(s) THEN v ELSE 0] :
        v \in InputVals}
    \cup {[k \in 1..NumBytes(s) |-> IF k = 1 THEN v ELSE 0] : v \in InputVals}

(***************************************************************************)
(* The state machine: one record of one schema, built by one of the two    *)
(* builds, and the last operation on it: its name, its argument, what it   *)
(* returned and how it ended.  A panic ends the run.  The bit buffers of   *)
(* private/push_pop.rs have a state machine of their own, further down.    *)
(***************************************************************************)
\* no bit buffer is in use
NoBuffer == <<>>

Op(op, arg, out, outcome) ==
    [op |-> op, arg |-> arg, out |-> out, outcome |-> outcome]

Running == last.outcome # "panic"

Init ==
    /\ schema \in {s \in Schemas : Compiles(s)}
    /\ overflow_checks \in BOOLEAN
    /\ rec = new(schema)
    /\ last = Op("new", <<>>, <<>>, "ok")
    /\ buffer = NoBuffer

New ==
    /\ Running
    /\ rec' = new(schema)
    /\ last' = Op("new", <<>>, <<>>, "ok")
    /\ UNCHANGED <<buffer, schema, overflow_checks>>

Set(i, v) ==
    /\ Running
    /\ ~skip_setters(schema.fields[i])
    /\ rec' = set(rec, i, v)
    /\ last' = Op("set", <<>>, <<>>, "ok")
    /\ UNCHANGED <<buffer, schema, overflow_checks>>

With(i, v) ==
    /\ Running
    /\ ~skip_setters(schema.fields[i])
    /\ rec' = with(rec, i, v)
    /\ last' = Op("with", <<>>, <<>>, "ok")
    /\ UNCHANGED <<buffer, schema, overflow_checks>>

\* let v: prim = record.into()
Into ==
    /\ Running
    /\ LET value == into_repr(schema, rec)
       IN  last' = Op("into", <<>>, value.val, value.res)
    /\ UNCHANGED <<buffer, schema, overflow_checks, rec>>

\* record = Record::from(input)
From(input) ==
    /\ Running
    /\ LET value == from_repr(schema, input, overflow_checks)
       IN  /\ rec' = IF IsOk(value) THEN value.val ELSE rec
           /\ last' = Op("from", input, <<>>, value.res)
    /\ UNCHANGED <<buffer, schema, overflow_checks>>

ToLeBytes ==
    /\ Running
    /\ LET bytes == to_le_bytes(schema, rec)
       IN  last' = Op("to_le_bytes", <<>>, bytes.val, bytes.res)
    /\ UNCHANGED <<buffer, schema, overflow_checks, rec>>

FromLeBytes(bytes) ==
    /\ Running
    /\ LET value == from_le_bytes(schema, bytes, overflow_checks)
       IN  /\ rec' = IF IsOk(value) THEN value.val ELSE rec
           /\ last' = Op("from_le_bytes", bytes, <<>>, value.res)
    /\ UNCHANGED <<buffer, schema, overflow_checks>>

UpdateByteLe(byte, value) ==
    /\ Running
    /\ LET new_self == update_byte_le(schema, rec, byte, value, overflow_checks)
       IN  /\ rec' = IF IsOk(new_self) THEN new_self.val ELSE rec
           /\ last' = Op("update_byte_le", <<byte, value>>, <<>>, new_self.res)
    /\ UNCHANGED <<buffer, schema, overflow_checks>>

UpdateByteBe(byte, value) ==
    /\ Running
    /\ LET new_self == update_byte_be(schema, rec, byte, value, overflow_checks)
       IN  /\ rec' = IF IsOk(new_self) THEN new_self.val ELSE rec
           /\ last' = Op("update_byte_be", <<byte, value>>, <<>>, new_self.res)
    /\ UNCHANGED <<buffer, schema, overflow_checks>>

\* the integers handed to From: sample ones, and the one Into just produced
IntInputs ==
    {prim_from_le_bytes(b) : b \in ByteInputs(schema)}
        \cup (IF last.op = "into" /\ last.outcome = "ok" THEN {last.out} ELSE {})

\* the arrays handed to from_le_bytes: sample ones, and the one to_le_bytes
\* just produced
ArrayInputs ==
    ByteInputs(schema)
        \cup (IF last.op = "to_le_bytes" /\ last.outcome = "ok" THEN {last.out}
                                                                 ELSE {})

Next ==
    \/ New
    \/ \E i \in 1..NumFields(schema) : \E v \in SetVals(schema.fields[i]) : Set(i, v)
    \/ \E i \in 1..NumFields(schema) : \E v \in SetVals(schema.fields[i]) : With(i, v)
    \/ Into
    \/ \E input \in IntInputs : From(input)
    \/ ToLeBytes
    \/ \E bytes \in ArrayInputs : FromLeBytes(bytes)
    \/ \E byte \in 0..(NumBytes(schema) - 1) : \E value \in ByteVals :
          UpdateByteLe(byte, value)
    \/ \E byte \in 0..(NumBytes(schema) - 1) : \E value \in ByteVals :
          UpdateByteBe(byte, value)

Spec == Init /\ [][Next]_vars

\* the same operations on the record of Sparse
InitSparse ==
    /\ schema = Sparse
    /\ Compiles(schema)
    /\ overflow_checks \in BOOLEAN
    /\ rec = new(schema)
    /\ last = Op("new", <<>>, <<>>, "ok")
    /\ buffer = NoBuffer

SpecSparse == InitSparse /\ [][Next]_vars

(***************************************************************************)
(* Expansion of declared schemas: bits = N, filled or not, three unsigned  *)
(* fields.  The record type exists once the expansion compiles.            *)
(***************************************************************************)
PinnedBits == {8, 12, 16, 24}

Declared ==
    {Bitfield("Declared", n, 0, filled, <<B("x", x), B("y", y), B("z", z)>>) :
        n \in PinnedBits, filled \in BOOLEAN,
        x \in 1..MaxFieldBits, y \in 1..MaxFieldBits, z \in 1..MaxFieldBits}

InitDeclared ==
    /\ schema \in Declared
    /\ overflow_checks \in BOOLEAN
    /\ rec = <<>>
    /\ last = Op("declare", <<>>, <<>>, "ok")
    /\ buffer = NoBuffer

\* #[bitfield(bits = N, filled = ..)] on the struct: last.out is whether the
\* width check passes
Expand ==
    /\ last.op = "declare"
    /\ rec' = IF Compiles(schema) THEN new(schema) ELSE rec
    /\ last' = Op("expand", <<>>, generate_check_for_filled(schema),
                  IF Compiles(schema) THEN "ok" ELSE "rejected")
    /\ UNCHANGED <<buffer, schema, overflow_checks>>

NextDeclared == Expand

SpecDeclared == InitDeclared /\ [][NextDeclared]_vars

(***************************************************************************)
(* The bit buffers of private/push_pop.rs.  A buffer of type uW is the     *)
(* sequence of its W/8 bytes, the least significant first.                 *)
(***************************************************************************)
BufferTypes == {8, 16, 32, 64, 128}

\* the amounts of bits moved by one call
MaxAmount == 8

\* bytes >> n for n in 0..8
ShrBytes(bytes, n) ==
    [i \in 1..Len(bytes) |->
        (bytes[i] \div Pow2(n))
        + (IF i < Len(bytes) THEN (bytes[i + 1] % Pow2(n)) * Pow2(8 - n) ELSE 0)]

\* bytes << n for n in 0..8, the bits shifted past the top lost
ShlBytes(bytes, n) ==
    [i \in 1..Len(bytes) |->
        ((bytes[i] * Pow2(n)) % 256)
        + (IF i > 1 THEN bytes[i - 1] \div Pow2(8 - n) ELSE 0)]

\* uW::checked_shr(amount).unwrap_or(0)
checked_shr_or_0(bytes, amount) ==
    IF amount < 8 * Len(bytes) THEN ShrBytes(bytes, amount)
    ELSE [i \in 1..Len(bytes) |-> 0]

\* uW::wrapping_shl(amount): the shift amount is taken modulo W
wrapping_shl(bytes, amount) == ShlBytes(bytes, amount % (8 * Len(bytes)))

\* pop_bits of PopBuffer<u8> with the buffer shifted by a wrapping shift
pop_bits_u8_wrapping(bytes, amount) ==
    LET mask == (((Pow2(amount % 16) % 65536) + 65535) % 65536) % 256
    IN  [res |-> "ok", out |-> AndN(bytes[1], mask),
         bytes |-> ShrBytes(bytes, amount % 8)]

\* pop_bits of PopBuffer<u8>: the mask is computed in u16
pop_bits_u8(bytes, amount) ==
    LET mask == (((Pow2(amount % 16) % 65536) + 65535) % 65536) % 256
    IN  [res |-> "ok", out |-> AndN(bytes[1], mask),
         bytes |-> checked_shr_or_0(bytes, amount)]

\* pop_bits of PopBuffer<u16 .. u128>: bitmask = 0xFF >> (8 - amount) in uW
impl_pop_bits(bytes, amount) ==
    LET bitmask == 255 \div Pow2(8 - amount)
    IN  [res |-> "ok", out |-> AndN(bytes[1], bitmask),
         bytes |-> checked_shr_or_0(bytes, amount)]

pop_bits(bytes, amount) ==
    IF Len(bytes) = 1 THEN pop_bits_u8(bytes, amount)
    ELSE impl_pop_bits(bytes, amount)

\* push_bits of PushBuffer<u8 .. u128>: bitmask = 0xFF >> (8 - amount as u8)
\* in u8, where a shift by 8 overflows
impl_push_bits(bytes, amount, bits, checks) ==
    LET shift == 8 - amount
    IN  IF shift >= 8 /\ checks
        THEN [res |-> "panic", out |-> <<>>, bytes |-> bytes]
        ELSE LET bitmask == 255 \div Pow2(shift % 8)
                 shifted == wrapping_shl(bytes, amount)
             IN  [res |-> "ok", out |-> <<>>,
                  bytes |-> [i \in 1..Len(bytes) |->
                               IF i = 1 THEN OrN(shifted[1], AndN(bits, bitmask))
                               ELSE shifted[i]]]

BufferSamples == <<255, 1, 165, 128>>

\* sample buffers: byte i is seed * i modulo 256
BufferVals(T) ==
    {[i \in 1..(T \div 8) |-> (BufferSamples[k] * i) % 256] :
        k \in 1..Min(NumBufferVals, Len(BufferSamples))}

\* a PopBuffer made by from_bytes, or a PushBuffer made by default() that
\* holds the bytes pushed so far
InitBits ==
    /\ schema = <<>>
    /\ rec = <<>>
    /\ overflow_checks \in BOOLEAN
    /\ \E T \in BufferTypes : \E bytes \in BufferVals(T) :
          \E kind \in {"PopBuffer", "PushBuffer"} :
             /\ buffer = [kind |-> kind, bytes |-> bytes, calls |-> 0]
             /\ last = Op(IF kind = "PopBuffer" THEN "from_bytes" ELSE "default",
                          <<>>, <<>>, "ok")

PopBits(amount) ==
    /\ Running
    /\ buffer.kind = "PopBuffer"
    /\ buffer.calls < MaxCalls
    /\ LET r == pop_bits(buffer.bytes, amount)
       IN  /\ buffer' = [buffer EXCEPT !.bytes = r.bytes, !.calls = @ + 1]
           /\ last' = Op("pop_bits", amount, r.out, r.res)
    /\ UNCHANGED <<schema, overflow_checks, rec>>

PushBits(amount, bits) ==
    /\ Running
    /\ buffer.kind = "PushBuffer"
    /\ buffer.calls < MaxCalls
    /\ LET r == impl_push_bits(buffer.bytes, amount, bits, overflow_checks)
       IN  /\ buffer' = [buffer EXCEPT !.bytes = r.bytes, !.calls = @ + 1]
           /\ last' = Op("push_bits", <<amount, bits>>, r.out, r.res)
    /\ UNCHANGED <<schema, overflow_checks, rec>>

NextBits ==
    \/ \E amount \in 0..MaxAmount : PopBits(amount)
    \/ \E amount \in 0..MaxAmount : \E bits \in ByteVals : PushBits(amount, bits)

SpecBits == InitBits /\ [][NextBits]_vars


(***************************************************************************)
(* The vocabulary of the properties: the layout as the specification       *)
(* words it, computed from the declared widths alone.                      *)
(***************************************************************************)
\* the sum of the widths of the fields declared before field i
RECURSIVE WidthsBefore(_, _)
WidthsBefore(s, i) ==
    IF i <= 1 THEN 0 ELSE s.fields[i - 1].bits + WidthsBefore(s, i - 1)

\* the valid bit-width: the sum of the field widths
SumOfWidths(s) == WidthsBefore(s, NumFields(s) + 1)

\* total_bits: the pinned width, or else the sum of the field widths
TotalBits(s) == IF s.bits # 0 THEN s.bits ELSE SumOfWidths(s)

CeilDiv8(bits) == (bits + 7) \div 8

\* every field holds a value of its domain
Valid(s, r) == \A i \in 1..NumFields(s) : r[i] \in Domain(s.fields[i])

\* the bit positions [offset_i, offset_i + width_i) of field i
BitRange(s, i) ==
    WidthsBefore(s, i)..(WidthsBefore(s, i) + s.fields[i].bits - 1)

\* the bit positions of byte k
ByteRange(k) == (8 * k)..(8 * k + 7)

\* bit k of the layout of record r: the bit of the field whose range holds
\* k, when that field takes part in encoding, and 0 elsewhere
LayoutBit(s, r, k) ==
    LET owners == {i \in 1..NumFields(s) :
                      ~skip_getters(s.fields[i]) /\ k \in BitRange(s, i)}
    IN  IF owners = {} THEN 0
        ELSE LET i == CHOOSE j \in owners : TRUE
             IN  (r[i] \div Pow2(k - WidthsBefore(s, i))) % 2

\* value * 2^offset, as the two 16-bit halves of the integer
Placed(value, offset) ==
    IF offset >= 16 THEN [lo |-> 0, hi |-> value * Pow2(offset - 16)]
    ELSE [lo |-> (value * Pow2(offset)) % 65536,
          hi |-> (value * Pow2(offset)) \div 65536]

\* the sum over the first i fields of value * 2^offset
RECURSIVE LayoutSum(_, _, _)
LayoutSum(s, r, i) ==
    IF i = 0 THEN [lo |-> 0, hi |-> 0]
    ELSE LET rest == LayoutSum(s, r, i - 1)
             p    == IF skip_getters(s.fields[i]) THEN Placed(0, 0)
                     ELSE Placed(r[i], WidthsBefore(s, i))
         IN  [lo |-> (rest.lo + p.lo) % 65536,
              hi |-> rest.hi + p.hi + ((rest.lo + p.lo) \div 65536)]

\* byte j of an integer given by its halves, byte 0 the least significant
ByteOf(x, j) ==
    IF j < 2 THEN (x.lo \div Pow2(8 * j)) % 256
    ELSE (x.hi \div Pow2(8 * (j - 2))) % 256

\* the bits of integer x in the range of field i, as a number
PatternOf(s, x, i) ==
    (Shr(x, WidthsBefore(s, i)).lo) % Pow2(s.fields[i].bits)

\* some field's bits in x are no value of that field's domain
InvalidPattern(s, x) ==
    \E i \in 1..NumFields(s) : PatternOf(s, x, i) \notin Domain(s.fields[i])

\* integer x with the bits of the range of field i cleared, as its halves
OutsideRange(s, x, i) ==
    LET p == Placed(PatternOf(s, x, i), WidthsBefore(s, i))
    IN  [lo |-> x.lo - p.lo, hi |-> x.hi - p.hi]

TypedFailure == {"InvalidBitPattern", "OutOfBounds"}

(***************************************************************************)
(* Properties.                                                             *)
(***************************************************************************)
\* C1: integer round trip.  When a valid record has just been converted to
\* its integer, converting that integer back completes without failure and
\* yields the same record, field by field.
C1_IntegerRoundTrip ==
    [][(/\ last.op = "into" /\ last.outcome = "ok"
        /\ Valid(schema, rec)
        /\ last'.op = "from" /\ last'.arg = last.out)
       => (last'.outcome = "ok" /\ rec' = rec)]_vars

\* C2: byte round trip.  to_le_bytes of a valid record has
\* ceil(total_bits/8) bytes, and from_le_bytes of those bytes returns Ok
\* with the same record, field by field.
C2_ByteRoundTrip ==
    [][/\ (last.op = "to_le_bytes" /\ last.outcome = "ok")
          => Len(last.out) = CeilDiv8(TotalBits(schema))
       /\ (/\ last.op = "to_le_bytes" /\ last.outcome = "ok"
           /\ Valid(schema, rec)
           /\ last'.op = "from_le_bytes" /\ last'.arg = last.out)
          => (last'.outcome = "ok" /\ rec' = rec)]_vars

\* C3: encode layout.  The integer of a valid record has field i's value
\* at bits [offset_i, offset_i + width_i), offset_i the sum of the widths
\* declared before i, and 0 elsewhere; it is the sum of value_i * 2^offset_i;
\* to_le_bytes gives its bytes, the low byte first.  The Color record with
\* r = 0xFF, g = 0, b = 0x80, a = true, rest = 0 encodes to 0x018000FF and
\* to the bytes FF 00 80 01.
C3_EncodeLayout ==
    /\ (last.op = "into" /\ Valid(schema, rec))
       => /\ last.outcome = "ok"
          /\ \A k \in 0..(last.out.w - 1) :
                Bit(last.out, k) = LayoutBit(schema, rec, k)
          /\ LET sum == LayoutSum(schema, rec, NumFields(schema))
             IN  last.out.lo = sum.lo /\ last.out.hi = sum.hi
    /\ (last.op = "to_le_bytes" /\ Valid(schema, rec))
       => /\ last.outcome = "ok"
          /\ LET sum == LayoutSum(schema, rec, NumFields(schema))
             IN  \A j \in 0..(Len(last.out) - 1) :
                    last.out[j + 1] = ByteOf(sum, j)
    /\ (schema = Color /\ rec = <<255, 0, 128, 1, 0>>)
       => /\ last.op = "into" => last.out = Prim(32, 255, 384)
          /\ last.op = "to_le_bytes" => last.out = <<255, 0, 128, 1>>

\* C3's case: the Color record of the example has been encoded to bytes
C3_Witness ==
    /\ schema = Color
    /\ rec = <<255, 0, 128, 1, 0>>
    /\ last.op = "to_le_bytes"
    /\ last.out = <<255, 0, 128, 1>>

\* C4: setter bounds rejection.  set_<field> and with_<field> handed a
\* value outside the field's domain signal OutOfBounds and leave every
\* field as it was.
C4_SetterRejects ==
    [][\A i \in 1..NumFields(schema) :
         \A v \in SetVals(schema.fields[i]) \ Domain(schema.fields[i]) :
            (Set(i, v) \/ With(i, v))
            => (last'.outcome = "OutOfBounds" /\ rec' = rec)]_vars

\* C5: field independence.  Setting field i to a legal value changes the
\* getter's value of no other field, and no bit of the encoded integer
\* outside [offset_i, offset_i + width_i) (a record the call leaves as it
\* was encodes as before).
C5_FieldIndependence ==
    [][last'.op \in {"set", "with"}
       => \A i \in 1..NumFields(schema) :
            \A v \in SetVals(schema.fields[i]) \cap Domain(schema.fields[i]) :
               (Set(i, v) \/ With(i, v))
               => /\ \A j \in 1..NumFields(schema) \ {i} :
                        get(rec', j) = get(rec, j)
                  /\ rec' # rec
                     => LET before == into_repr(schema, rec)
                            after  == into_repr(schema, rec')
                        IN  IsOk(before)
                            => /\ IsOk(after)
                               /\ OutsideRange(schema, after.val, i)
                                     = OutsideRange(schema, before.val, i)]_vars

\* C5's case: a field of Color has been set while two other fields held
\* values other than zero
C5_Witness ==
    /\ schema = Color
    /\ last.op = "set"
    /\ rec[1] = 255 /\ rec[3] = 128 /\ rec[5] = 126

\* C6: byte update isolation.  update_byte_le(k, v) on a valid record
\* succeeds, the bytes afterwards are the bytes before with byte k replaced
\* by v, and every field whose range does not meet byte k keeps its value;
\* on Color, update_byte_le(1, 0x42) changes g to 0x42 and nothing else.
C6_ByteUpdateIsolation ==
    [][(last'.op = "update_byte_le" /\ Valid(schema, rec))
       => LET k      == last'.arg[1]
              v      == last'.arg[2]
              before == to_le_bytes(schema, rec)
              after  == to_le_bytes(schema, rec')
          IN  /\ last'.outcome = "ok"
              /\ IsOk(after)
              /\ after.val = [before.val EXCEPT ![k + 1] = v]
              /\ \A j \in 1..NumFields(schema) :
                    (BitRange(schema, j) \cap ByteRange(k) = {})
                    => rec'[j] = rec[j]
              /\ (schema = Color /\ k = 1 /\ v = 66)
                 => rec' = [rec EXCEPT ![2] = 66]]_vars

\* C7: big-endian byte addressing.  update_byte_be(i, v) ends as
\* update_byte_le(ceil(total_bits/8) - 1 - i, v) on the same record ends,
\* and leaves the same record.
C7_BigEndianAddressing ==
    [][last'.op = "update_byte_be"
       => LET le == update_byte_le(schema, rec,
                        CeilDiv8(TotalBits(schema)) - 1 - last'.arg[1],
                        last'.arg[2], overflow_checks)
          IN  /\ last'.outcome = le.res
              /\ rec' = IF IsOk(le) THEN le.val ELSE rec]_vars

\* C7's case: update_byte_be(2, 0x42) on Color has written g, the byte
\* update_byte_le addresses as 1
C7_Witness ==
    /\ schema = Color
    /\ last.op = "update_byte_be" /\ last.outcome = "ok"
    /\ last.arg = <<2, 66>>
    /\ rec[2] = 66 /\ rec[1] = 255

\* C8: from_le_bytes of a non-filled schema of valid width W, n = ceil(W/8),
\* returns OutOfBounds exactly when the top byte has a bit set at a position
\* >= W - 8 * (n - 1), and Ok otherwise.
C8_TopByteCheck ==
    (last.op = "from_le_bytes" /\ ~schema.filled)
    => LET W == SumOfWidths(schema)
           n == CeilDiv8(W)
       IN  last.outcome = IF last.arg[n] >= Pow2(W - 8 * (n - 1))
                          THEN "OutOfBounds" ELSE "ok"

\* C9: unused high bits stay zero.  The encoded integer of a record of a
\* non-filled schema has every bit at or above the sum of the field widths
\* equal to 0.
C9_HighBitsZero ==
    ~schema.filled
    => LET value == into_repr(schema, rec)
       IN  IsOk(value)
           => \A k \in SumOfWidths(schema)..(value.val.w - 1) :
                 Bit(value.val, k) = 0

\* C9's case: a record of the non-filled Wide, decoded from an integer,
\* holds a value other than zero in its top field
C9_Witness ==
    /\ schema = Wide
    /\ last.op = "from" /\ last.outcome = "ok"
    /\ rec[2] = 48

\* C10: invalid bit patterns are typed failures.  Decoding an integer or a
\* byte array, or re-deriving the record inside update_byte_le or
\* update_byte_be, from bits that are no value of some field's domain ends
\* in InvalidBitPattern or OutOfBounds: it does not abort and does not
\* produce a record.
C10_TypedFailure ==
    [][/\ (last'.op = "from" /\ InvalidPattern(schema, last'.arg))
          => last'.outcome \in TypedFailure
       /\ (last'.op = "from_le_bytes"
             /\ InvalidPattern(schema, prim_from_le_bytes(last'.arg)))
          => last'.outcome \in TypedFailure
       /\ (last'.op = "update_byte_le" /\ IsOk(to_le_bytes(schema, rec))
             /\ InvalidPattern(schema, prim_from_le_bytes(
                    [to_le_bytes(schema, rec).val
                        EXCEPT ![last'.arg[1] + 1] = last'.arg[2]])))
          => last'.outcome \in TypedFailure]_vars

\* C11: skip(getters).  A schema with fields marked skip(getters) compiles;
\* such a field has no getter and keeps its setters, the next field starts
\* where it ends, and in the encoded integer and bytes its bit range is 0
\* whatever its slot holds, while every other field is encoded at the sum
\* of the widths declared before it.
C11_SkipGetters ==
    LET skipped == {i \in 1..NumFields(schema) : schema.fields[i].skip = "getters"}
        kept    == (1..NumFields(schema)) \ skipped
        Encoded(x) ==
            /\ \A i \in skipped : PatternOf(schema, x, i) = 0
            /\ \A j \in kept : PatternOf(schema, x, j) = rec[j]
    IN  /\ Compiles(schema)
        /\ \A i \in skipped :
              /\ ~expand_getters_for_field_unpacked(schema, i)
              /\ expand_setters_for_field_unpacked(schema, i)
              /\ i < NumFields(schema)
                 => schema.fields[i + 1].offset
                      = WidthsBefore(schema, i) + schema.fields[i].bits
        /\ (last.op \in {"into", "to_le_bytes"}
               /\ \A j \in kept : rec[j] \in Domain(schema.fields[j]))
           => last.outcome = "ok"
        /\ (last.op = "into" /\ last.outcome = "ok") => Encoded(last.out)
        /\ (last.op = "to_le_bytes" /\ last.outcome = "ok")
           => Encoded(prim_from_le_bytes(last.out))

\* C11's case: Sparse has been encoded while skipped slots held a value
\* inside and a value outside the domain, and a was set
C11_Witness ==
    /\ schema = Sparse
    /\ rec[1] = 1022 /\ rec[3] = 1024 /\ rec[2] = 1
    /\ last.op = "into"
    /\ last.out = Prim(32, 1024, 0)

\* C12 as stated: with bits = N the width check accepts the schema exactly
\* when the sum of the field widths is N (filled) or at most N (not
\* filled); a schema it does not accept is rejected and has no record.
C12_WidthCheckAtMost ==
    last.op = "expand"
    => /\ last.out = IF schema.filled THEN SumOfWidths(schema) = schema.bits
                                      ELSE SumOfWidths(schema) <= schema.bits
       /\ ~last.out => (last.outcome = "rejected" /\ rec = <<>>)

\* C12, amended: with bits = N the width check accepts the schema exactly
\* when the sum of the field widths is N (filled) or less than N (not
\* filled); a schema it does not accept is rejected and has no record.
C12_WidthCheck ==
    last.op = "expand"
    => /\ last.out = IF schema.filled THEN SumOfWidths(schema) = schema.bits
                                      ELSE SumOfWidths(schema) < schema.bits
       /\ ~last.out => (last.outcome = "rejected" /\ rec = <<>>)

\* C12's case: a schema that is not filled and whose widths sum to exactly
\* the pinned N has been expanded, and was rejected
C12_Witness ==
    /\ last.op = "expand"
    /\ ~schema.filled
    /\ SumOfWidths(schema) = schema.bits
    /\ last.outcome = "rejected" /\ rec = <<>>

\* bit k of a buffer, bit 0 being the least significant
BufferBit(bytes, k) == (bytes[(k \div 8) + 1] \div Pow2(k % 8)) % 2

\* C13: pop_bits.  For every width and every amount a in 0..8, pop_bits(a)
\* returns b mod 2^a and leaves floor(b / 2^a): bit k of the buffer is bit
\* k + a of b, and 0 where k + a is past the top (a = 8 on u8 leaves 0);
\* the call does not fail.
C13_PopBits ==
    [][last'.op = "pop_bits"
       => LET a == last'.arg
              W == 8 * Len(buffer.bytes)
          IN  /\ last'.outcome = "ok"
              /\ last'.out = buffer.bytes[1] % Pow2(a)
              /\ \A k \in 0..(W - 1) :
                    BufferBit(buffer'.bytes, k)
                      = IF k + a < W THEN BufferBit(buffer.bytes, k + a) ELSE 0]_vars

\* C13's case: 8 bits have been popped from a u8 buffer holding 0xFF
C13_Witness ==
    /\ last.op = "pop_bits" /\ last.arg = 8 /\ last.outcome = "ok"
    /\ last.out = 255
    /\ buffer.bytes = <<0>>

\* C14: push_bits.  For every width and every amount a in 0..8,
\* push_bits(a, x) leaves ((b * 2^a) mod 2^W) + (x mod 2^a): bit k of the
\* buffer is bit k of x below a and bit k - a of b from a on; the call does
\* not fail.
C14_PushBits ==
    [][last'.op = "push_bits"
       => LET a == last'.arg[1]
              x == last'.arg[2]
              W == 8 * Len(buffer.bytes)
          IN  /\ last'.outcome = "ok"
              /\ \A k \in 0..(W - 1) :
                    BufferBit(buffer'.bytes, k)
                      = IF k < a THEN (x \div Pow2(k)) % 2
                                 ELSE BufferBit(buffer.bytes, k - a)]_vars

====
